---------------------------- MODULE Spec2Model ----------------------------
(* Model of scripts/generate_ground_glb.py: the ground plane exporter.     *)
(*                                                                         *)
(* One run of the entry point is a linear pass: ensure_paths (input check, *)
(* mkdir), create_ground_glb (geometry arrays, texture decode, PNG         *)
(* re-encode, binary packing, glTF document, save) and the success or      *)
(* failure report.  Lengths (metres, UV units) are held as fixed-point     *)
(* integers counting halves, so that PLANE_SIZE_METERS / 2.0 is exact.     *)
EXTENDS Integers, Sequences, FiniteSets, TLC

(***************************************************************************)
(* Program constants                                                       *)
(***************************************************************************)
PLANE_SIZE_METERS == 400
TEXTURE_TILE_COUNT == 10

ARRAY_BUFFER == 34962
ELEMENT_ARRAY_BUFFER == 34963
FLOAT == 5126
UNSIGNED_SHORT == 5123
LINEAR == 9729
LINEAR_MIPMAP_LINEAR == 9987
REPEAT == 10497

\* OUTPUT_PATH.parent is ROOT/src/preset/models: three directory levels
\* below ROOT, each of which mkdir(parents=True) may have to create.
ParentDepth == 3

(***************************************************************************)
(* Bounds of the model                                                     *)
(***************************************************************************)
MaxSide == 3
MaxTile == 2
MaxPixels == 2

\* Side lengths and tile counts a run is configured with: the shipped
\* constants and a range of small positive values.
Sides == (1..MaxSide) \cup {PLANE_SIZE_METERS}
Tiles == (1..MaxTile) \cup {TEXTURE_TILE_COUNT}

(***************************************************************************)
(* Arithmetic helpers                                                      *)
(***************************************************************************)
RECURSIVE Pow2(_)
Pow2(k) == IF k = 0 THEN 1 ELSE 2 * Pow2(k - 1)

Abs(n) == IF n < 0 THEN -n ELSE n

\* A metre (or UV unit) count as a fixed-point number of halves.
ToFixed(m) == 2 * m

RECURSIVE Concat(_)
Concat(ss) == IF ss = <<>> THEN <<>> ELSE Head(ss) \o Concat(Tail(ss))

\* row-major flattening of a 2-D array (numpy C order)
Flatten(rows) == Concat(rows)

\* 0-based element access, as glTF indices and Python subscripts count
At(s, i) == s[i + 1]

\* Python slice s[off : off + len]
Slice(s, off, len) == SubSeq(s, off + 1, off + len)

(***************************************************************************)
(* numpy float32 / uint16 little-endian encoding (ndarray.tobytes)         *)
(***************************************************************************)
\* IEEE-754 binary32 of the value n/2, least significant byte first.
Float32Bytes(n) ==
    IF n = 0 THEN <<0, 0, 0, 0>>
    ELSE LET a == Abs(n)
             k == CHOOSE j \in 0..23 : Pow2(j) <= a /\ a < Pow2(j + 1)
             biased == (k - 1) + 127
             mant == (a - Pow2(k)) * Pow2(23 - k)
             sign == IF n < 0 THEN 1 ELSE 0
         IN  << mant % 256,
                (mant \div 256) % 256,
                (mant \div 65536) + (biased % 2) * 128,
                sign * 128 + (biased \div 2) >>

Uint16Bytes(n) == << n % 256, (n \div 256) % 256 >>

FloatArrayBytes(rows) ==
    LET flat == Flatten(rows)
    IN  Concat([i \in 1..Len(flat) |-> Float32Bytes(flat[i])])

Uint16ArrayBytes(xs) == Concat([i \in 1..Len(xs) |-> Uint16Bytes(xs[i])])

(***************************************************************************)
(* Geometry built by create_ground_glb                                     *)
(***************************************************************************)
\* mutant: the side length taken for the half extent
half_extent_Full(size) == ToFixed(size)

half_extent(size) == ToFixed(size) \div 2

Vertices(size) ==
    LET h == half_extent(size)
    IN  << <<-h, 0, -h>>,
           << h, 0, -h>>,
           << h, 0,  h>>,
           <<-h, 0,  h>> >>

Normals ==
    << <<0, ToFixed(1), 0>>,
       <<0, ToFixed(1), 0>>,
       <<0, ToFixed(1), 0>>,
       <<0, ToFixed(1), 0>> >>

Uvs(tile) ==
    << <<0, ToFixed(tile)>>,
       <<ToFixed(tile), ToFixed(tile)>>,
       <<ToFixed(tile), 0>>,
       <<0, 0>> >>

\* mutant: strip-style indices, the second triangle built on edge 1-2
Indices_Strip == <<0, 1, 2, 1, 2, 3>>

Indices == <<0, 1, 2, 0, 2, 3>>

\* ndarray.min(axis=0).tolist() / ndarray.max(axis=0).tolist()
ColumnMin(rows) ==
    [j \in 1..Len(rows[1]) |->
        CHOOSE m \in {rows[i][j] : i \in 1..Len(rows)} :
            \A i \in 1..Len(rows) : m <= rows[i][j]]

ColumnMax(rows) ==
    [j \in 1..Len(rows[1]) |->
        CHOOSE m \in {rows[i][j] : i \in 1..Len(rows)} :
            \A i \in 1..Len(rows) : m >= rows[i][j]]

(***************************************************************************)
(* The texture file, PIL decoding and PNG re-encoding                      *)
(***************************************************************************)
\* What TEXTURE_PATH names: nothing, a directory, a file that is no image,
\* or an image file of some mode with its pixels (one tuple per pixel).
Colours == { <<0, 128, 0>>, <<255, 255, 255>> }
Alphas == {0, 255}

PixelRows(pixelSet) ==
    UNION { [1..n -> pixelSet] : n \in 1..MaxPixels }

TextureFiles ==
    { [kind |-> k, mode |-> "", pixels |-> <<>>] :
          k \in {"absent", "directory", "garbage"} }
    \cup { [kind |-> "image", mode |-> "RGB", pixels |-> px] :
               px \in PixelRows(Colours) }
    \cup { [kind |-> "image", mode |-> "RGBA", pixels |-> px] :
               px \in PixelRows({ c \o <<a>> : c \in Colours, a \in Alphas }) }

\* mutant: Path.exists() in place of Path.is_file()
is_file_Exists(f) == f.kind # "absent"

\* Path.is_file()
is_file(f) == f.kind \in {"garbage", "image"}

\* Image.open(path) succeeds only on a file PIL identifies as an image
Decodable(f) == f.kind = "image"

\* Image.convert("RGBA"): an opaque alpha channel is added to RGB pixels
ConvertRGBA(f) ==
    [i \in 1..Len(f.pixels) |->
        IF f.mode = "RGBA" THEN f.pixels[i] ELSE f.pixels[i] \o <<255>>]

\* image.save(buffer, format="PNG"): a lossless container of the RGBA
\* pixels (signature, pixel count, raw channels; compression abstracted).
PngSignature == <<137, 80, 78, 71>>

PngBytes(rgba) == PngSignature \o <<Len(rgba)>> \o Flatten(rgba)

(***************************************************************************)
(* Binary packing and the glTF document                                    *)
(***************************************************************************)
BinaryData(vb, nb, ub, ib, tb) == vb \o nb \o ub \o ib \o tb

vertices_offset == 0
normals_offset(vb) == Len(vb)
\* mutant: the UV offset not carried on from the normals' offset
uvs_offset_NoBase(vb, nb) == Len(nb)

uvs_offset(vb, nb) == normals_offset(vb) + Len(nb)
indices_offset(vb, nb, ub) == uvs_offset(vb, nb) + Len(ub)
texture_offset(vb, nb, ub, ib) == indices_offset(vb, nb, ub) + Len(ib)

BufferViews(vb, nb, ub, ib, tb) ==
    << [buffer |-> 0, byteOffset |-> vertices_offset,
        byteLength |-> Len(vb), target |-> <<ARRAY_BUFFER>>],
       [buffer |-> 0, byteOffset |-> normals_offset(vb),
        byteLength |-> Len(nb), target |-> <<ARRAY_BUFFER>>],
       [buffer |-> 0, byteOffset |-> uvs_offset(vb, nb),
        byteLength |-> Len(ub), target |-> <<ARRAY_BUFFER>>],
       [buffer |-> 0, byteOffset |-> indices_offset(vb, nb, ub),
        byteLength |-> Len(ib), target |-> <<ELEMENT_ARRAY_BUFFER>>],
       [buffer |-> 0, byteOffset |-> texture_offset(vb, nb, ub, ib),
        byteLength |-> Len(tb), target |-> <<>>] >>

Accessors(v, n, u, i) ==
    << [bufferView |-> 0, byteOffset |-> 0, componentType |-> FLOAT,
        count |-> Len(v), type |-> "VEC3",
        min |-> ColumnMin(v), max |-> ColumnMax(v)],
       [bufferView |-> 1, byteOffset |-> 0, componentType |-> FLOAT,
        count |-> Len(n), type |-> "VEC3", min |-> <<>>, max |-> <<>>],
       [bufferView |-> 2, byteOffset |-> 0, componentType |-> FLOAT,
        count |-> Len(u), type |-> "VEC2", min |-> <<>>, max |-> <<>>],
       [bufferView |-> 3, byteOffset |-> 0, componentType |-> UNSIGNED_SHORT,
        count |-> Len(i), type |-> "SCALAR", min |-> <<>>, max |-> <<>>] >>

\* mutant: the image pointed at the index buffer view
Images_IndexView == << [bufferView |-> 3, mimeType |-> "image/png"] >>

Images == << [bufferView |-> 4, mimeType |-> "image/png"] >>

Samplers ==
    << [magFilter |-> LINEAR, minFilter |-> LINEAR_MIPMAP_LINEAR,
        wrapS |-> REPEAT, wrapT |-> REPEAT] >>

Textures == << [sampler |-> 0, source |-> 0] >>

Materials ==
    << [name |-> "GrassMaterial",
        pbrMetallicRoughness |->
            [baseColorTexture |-> [index |-> 0, texCoord |-> 0],
             baseColorFactor |->
                 <<ToFixed(1), ToFixed(1), ToFixed(1), ToFixed(1)>>,
             metallicFactor |-> 0,
             roughnessFactor |-> ToFixed(1)],
        doubleSided |-> TRUE,
        alphaMode |-> "OPAQUE"] >>

Meshes ==
    << [name |-> "GroundPlane",
        primitives |->
            << [attributes |->
                    [POSITION |-> 0, NORMAL |-> 1, TEXCOORD_0 |-> 2],
                indices |-> 3,
                material |-> 0] >>] >>

Nodes == << [mesh |-> 0] >>

Scenes == << [nodes |-> <<0>>] >>

\* the GLTF2 object as it stands when gltf.save is called
Document(v, n, u, i, vb, nb, ub, ib, tb, bin) ==
    [asset |-> [version |-> "2.0", generator |-> "Harmony Ground Generator"],
     buffers |-> << [byteLength |-> Len(bin)] >>,
     bufferViews |-> BufferViews(vb, nb, ub, ib, tb),
     accessors |-> Accessors(v, n, u, i),
     images |-> Images,
     samplers |-> Samplers,
     textures |-> Textures,
     materials |-> Materials,
     meshes |-> Meshes,
     nodes |-> Nodes,
     scenes |-> Scenes,
     scene |-> 0]

(***************************************************************************)
(* The file system the run sees                                            *)
(***************************************************************************)
\* TEXTURE_PATH and OUTPUT_PATH both lie below ROOT/src/preset: wherever
\* anything exists at TEXTURE_PATH, these two levels of OUTPUT_PATH.parent
\* exist as well.
SharedDepth == 2

NoOutput == [kind |-> "absent", doc |-> <<>>, blob |-> <<>>]
\* an output file left by some earlier build
StaleOutput == [kind |-> "stale", doc |-> <<>>, blob |-> <<0>>]
\* a file opened for writing whose write did not complete
PartialOutput == [kind |-> "partial", doc |-> <<>>, blob |-> <<>>]

GlbFile(doc, blob) == [kind |-> "glb", doc |-> doc, blob |-> blob]

\* mutant: the directory is never created
MkdirLevels_NoCreate(have) == have

\* Path.mkdir(parents=True, exist_ok=True) on a path with `have` of its
\* levels present: the levels present when it returns
MkdirLevels(have) == ParentDepth

\* the exception Image.open raises on a path it cannot decode
OpenError(f) ==
    CASE f.kind = "absent" -> "FileNotFoundError"
      [] f.kind = "directory" -> "IsADirectoryError"
      [] OTHER -> "UnidentifiedImageError"

SuccessMessage == <<"Ground GLB exported to", "OUTPUT_PATH">>
FailureMessage(e) == <<"Failed to generate GLB", e>>

(***************************************************************************)
(* State                                                                   *)
(***************************************************************************)
VARIABLES
    pc,              \* the statement the run is about to execute
    planeSize,       \* PLANE_SIZE_METERS of this run
    tileCount,       \* TEXTURE_TILE_COUNT of this run
    textureFile,     \* what TEXTURE_PATH names
    parentDirs,      \* levels of OUTPUT_PATH.parent that exist
    outputFile,      \* what OUTPUT_PATH names
    vertices, normals, uvs, indices,
    image, texture_bytes,
    vertices_bytes, normals_bytes, uvs_bytes, indices_bytes,
    binary_data,
    gltf,            \* <<>> or <<document>>
    binary_blob,     \* the blob handed to gltf.set_binary_blob
    exc,             \* the exception in flight, "" when none
    stdout, stderr,
    exit,            \* "running", "returned" or "raised"
    uncaught,        \* the exception that left the entry point
    initialDirs, initialOutput,   \* the file system before the run
    steps            \* the statements executed so far, in order

vars == << pc, planeSize, tileCount, textureFile, parentDirs, outputFile,
           vertices, normals, uvs, indices, image, texture_bytes,
           vertices_bytes, normals_bytes, uvs_bytes, indices_bytes,
           binary_data, gltf, binary_blob, exc, stdout, stderr, exit,
           uncaught, initialDirs, initialOutput, steps >>

config == << planeSize, tileCount, textureFile, initialDirs, initialOutput >>
arrays == << vertices, normals, uvs, indices >>
packed == << vertices_bytes, normals_bytes, uvs_bytes, indices_bytes,
             binary_data >>
console == << stdout, stderr, exit, uncaught >>

Init ==
    /\ pc = "ensure_paths"
    /\ planeSize \in Sides
    /\ tileCount \in Tiles
    /\ textureFile \in TextureFiles
    /\ parentDirs \in 0..ParentDepth
    /\ textureFile.kind # "absent" => parentDirs >= SharedDepth
    /\ outputFile \in {NoOutput, StaleOutput}
    /\ outputFile # NoOutput => parentDirs = ParentDepth
    /\ vertices = <<>> /\ normals = <<>> /\ uvs = <<>> /\ indices = <<>>
    /\ image = <<>> /\ texture_bytes = <<>>
    /\ vertices_bytes = <<>> /\ normals_bytes = <<>>
    /\ uvs_bytes = <<>> /\ indices_bytes = <<>>
    /\ binary_data = <<>>
    /\ gltf = <<>> /\ binary_blob = <<>>
    /\ exc = ""
    /\ stdout = <<>> /\ stderr = <<>>
    /\ exit = "running" /\ uncaught = ""
    /\ initialDirs = parentDirs
    /\ initialOutput = outputFile
    /\ steps = <<>>

\* mutant: the error is recorded and the run carries on to the save
Raise_CarryOn(e) ==
    /\ exc' = e
    /\ pc' = "save"

\* an exception leaves the try body: control passes to the except clause
Raise(e) ==
    /\ exc' = e
    /\ pc' = "except"

(***************************************************************************)
(* ensure_paths                                                            *)
(***************************************************************************)
EnsurePathsCheck ==
    /\ pc = "ensure_paths"
    /\ steps' = Append(steps, "is_file")
    /\ IF ~is_file(textureFile)
       THEN Raise("FileNotFoundError")
       ELSE pc' = "mkdir" /\ exc' = exc
    /\ UNCHANGED << config, parentDirs, outputFile, arrays, image,
                    texture_bytes, packed, gltf, binary_blob, console >>

EnsurePathsMkdir ==
    /\ pc = "mkdir"
    /\ steps' = Append(steps, "mkdir")
    /\ \/ /\ parentDirs' = MkdirLevels(parentDirs)
          /\ pc' = "geometry"
          /\ exc' = exc
       \/ \* a level that has to be created cannot be (permissions, ...)
          /\ parentDirs < ParentDepth
          /\ \E d \in parentDirs..(ParentDepth - 1) : parentDirs' = d
          /\ Raise("PermissionError")
    /\ UNCHANGED << config, outputFile, arrays, image, texture_bytes,
                    packed, gltf, binary_blob, console >>

(***************************************************************************)
(* create_ground_glb                                                       *)
(***************************************************************************)
BuildGeometry ==
    /\ pc = "geometry"
    /\ steps' = Append(steps, "geometry")
    /\ vertices' = Vertices(planeSize)
    /\ normals' = Normals
    /\ uvs' = Uvs(tileCount)
    /\ indices' = Indices
    /\ pc' = "load_texture"
    /\ UNCHANGED << config, parentDirs, outputFile, image, texture_bytes,
                    packed, gltf, binary_blob, exc, console >>

LoadTexture ==
    /\ pc = "load_texture"
    /\ steps' = Append(steps, "load_texture")
    /\ IF Decodable(textureFile)
       THEN /\ image' = ConvertRGBA(textureFile)
            /\ pc' = "encode_texture"
            /\ exc' = exc
       ELSE /\ Raise(OpenError(textureFile))
            /\ image' = image
    /\ UNCHANGED << config, parentDirs, outputFile, arrays, texture_bytes,
                    packed, gltf, binary_blob, console >>

EncodeTexture ==
    /\ pc = "encode_texture"
    /\ steps' = Append(steps, "encode_texture")
    /\ \/ /\ texture_bytes' = PngBytes(image)
          /\ pc' = "pack"
          /\ exc' = exc
       \/ \* the PNG encoder fails
          /\ Raise("OSError")
          /\ texture_bytes' = texture_bytes
    /\ UNCHANGED << config, parentDirs, outputFile, arrays, image, packed,
                    gltf, binary_blob, console >>

PackBinary ==
    /\ pc = "pack"
    /\ steps' = Append(steps, "pack")
    /\ vertices_bytes' = FloatArrayBytes(vertices)
    /\ normals_bytes' = FloatArrayBytes(normals)
    /\ uvs_bytes' = FloatArrayBytes(uvs)
    /\ indices_bytes' = Uint16ArrayBytes(indices)
    /\ binary_data' = BinaryData(vertices_bytes', normals_bytes',
                                 uvs_bytes', indices_bytes', texture_bytes)
    /\ pc' = "document"
    /\ UNCHANGED << config, parentDirs, outputFile, arrays, image,
                    texture_bytes, gltf, binary_blob, exc, console >>

BuildDocument ==
    /\ pc = "document"
    /\ steps' = Append(steps, "document")
    /\ gltf' = << Document(vertices, normals, uvs, indices,
                           vertices_bytes, normals_bytes, uvs_bytes,
                           indices_bytes, texture_bytes, binary_data) >>
    /\ binary_blob' = binary_data
    /\ pc' = "save"
    /\ UNCHANGED << config, parentDirs, outputFile, arrays, image,
                    texture_bytes, packed, exc, console >>

Save ==
    /\ pc = "save"
    /\ steps' = Append(steps, "save")
    /\ \/ /\ parentDirs = ParentDepth
          /\ outputFile' = GlbFile(gltf, binary_blob)
          /\ pc' = "print_success"
          /\ exc' = exc
       \/ \* the file cannot be opened for writing
          /\ outputFile' = outputFile
          /\ Raise(IF parentDirs = ParentDepth
                   THEN "PermissionError" ELSE "FileNotFoundError")
       \/ \* the write fails after the file was opened (disk full, ...)
          /\ parentDirs = ParentDepth
          /\ outputFile' = PartialOutput
          /\ Raise("OSError")
    /\ UNCHANGED << config, parentDirs, arrays, image, texture_bytes,
                    packed, gltf, binary_blob, console >>

(***************************************************************************)
(* The entry point's report                                                *)
(***************************************************************************)
PrintSuccess ==
    /\ pc = "print_success"
    /\ steps' = Append(steps, "print_success")
    /\ stdout' = Append(stdout, SuccessMessage)
    /\ exit' = "returned"
    /\ pc' = "exit"
    /\ UNCHANGED << config, parentDirs, outputFile, arrays, image,
                    texture_bytes, packed, gltf, binary_blob, exc, stderr,
                    uncaught >>

\* mutant: the except clause reports and does not re-raise
HandleException_Swallow ==
    /\ pc = "except"
    /\ steps' = Append(steps, "except")
    /\ stderr' = Append(stderr, FailureMessage(exc))
    /\ uncaught' = uncaught
    /\ exit' = "returned"
    /\ pc' = "exit"
    /\ UNCHANGED << config, parentDirs, outputFile, arrays, image,
                    texture_bytes, packed, gltf, binary_blob, exc, stdout >>

HandleException ==
    /\ pc = "except"
    /\ steps' = Append(steps, "except")
    /\ stderr' = Append(stderr, FailureMessage(exc))
    /\ uncaught' = exc
    /\ exit' = "raised"
    /\ pc' = "exit"
    /\ UNCHANGED << config, parentDirs, outputFile, arrays, image,
                    texture_bytes, packed, gltf, binary_blob, exc, stdout >>

Next ==
    \/ EnsurePathsCheck
    \/ EnsurePathsMkdir
    \/ BuildGeometry
    \/ LoadTexture
    \/ EncodeTexture
    \/ PackBinary
    \/ BuildDocument
    \/ Save
    \/ PrintSuccess
    \/ HandleException

Spec == Init /\ [][Next]_vars

(***************************************************************************)
(* Vocabulary of the properties                                            *)
(***************************************************************************)
Range(s) == { s[i] : i \in 1..Len(s) }

\* the order in which a run that meets no error executes its statements
FullRun ==
    << "is_file", "mkdir", "geometry", "load_texture", "encode_texture",
       "pack", "document", "save", "print_success" >>

Prefix(s, k) == SubSeq(s, 1, k)

\* the statements of create_ground_glb
InCreateGroundGlb ==
    { "geometry", "load_texture", "encode_texture", "pack", "document",
      "save" }

\* Y component of (Vb - Va) x (Vc - Va)
CrossY(va, vb, vc) ==
    (vb[3] - va[3]) * (vc[1] - va[1]) - (vb[1] - va[1]) * (vc[3] - va[3])

\* the k-th triangle of an index sequence, as three 0-based indices
Triangle(idx, k) == SubSeq(idx, 3 * k - 2, 3 * k)

TriangleCount(idx) == Len(idx) \div 3

\* Twice the signed area of the closed polygon p, in a frame whose first
\* axis points right and whose second axis points up: positive when p turns
\* counter-clockwise.
RECURSIVE Shoelace(_, _)
Shoelace(p, i) ==
    IF i > Len(p) THEN 0
    ELSE LET q == IF i = Len(p) THEN p[1] ELSE p[i + 1]
         IN  (p[i][1] * q[2] - q[1] * p[i][2]) + Shoelace(p, i + 1)

Sign(n) == IF n > 0 THEN 1 ELSE IF n < 0 THEN -1 ELSE 0

\* A point of the XZ plane as an observer on the +Y side looking down sees
\* it in a right-handed frame: +X to the right, -Z up.
SeenFromAbove(v) == << v[1], -v[3] >>

\* A UV pair as it lies on the image, glTF convention: the origin is the
\* top-left corner, u runs right and v runs down.
OnImage(uv) == << uv[1], -uv[2] >>

\* bytes per component and components per element of an accessor (glTF 2.0)
ComponentBytes(componentType) == IF componentType = FLOAT THEN 4 ELSE 2

ComponentCount(type) ==
    CASE type = "SCALAR" -> 1
      [] type = "VEC2" -> 2
      [] type = "VEC3" -> 3

\* the bytes of a blob that a buffer view covers
ViewBytes(blob, view) == Slice(blob, view.byteOffset, view.byteLength)

RECURSIVE SumLengths(_, _)
SumLengths(views, k) ==
    IF k = 0 THEN 0 ELSE views[k].byteLength + SumLengths(views, k - 1)

ValidIndex(i, list) == i \in 0..(Len(list) - 1)

(***************************************************************************)
(* Reading the container back: what a glTF loader decodes                  *)
(***************************************************************************)
\* The value (as a count of halves) of four little-endian binary32 bytes.
Float32Value(b) ==
    LET sign == b[4] \div 128
        biased == (b[4] % 128) * 2 + (b[3] \div 128)
        mant == (b[3] % 128) * 65536 + b[2] * 256 + b[1]
        mag == IF biased = 0 /\ mant = 0 THEN 0
               ELSE (8388608 + mant) \div Pow2(149 - biased)
    IN  IF sign = 1 THEN -mag ELSE mag

Uint16Value(b) == b[1] + 256 * b[2]

\* Reading an accessor back: count elements of ncomp float32 components.
DecodeFloatArray(bytes, count, ncomp) ==
    [i \in 1..count |->
        [j \in 1..ncomp |->
            Float32Value(Slice(bytes, 4 * ((i - 1) * ncomp + (j - 1)), 4))]]

DecodeUint16Array(bytes, count) ==
    [i \in 1..count |-> Uint16Value(Slice(bytes, 2 * (i - 1), 2))]

\* what a PNG decoder reads back from such bytes
PngPixels(bytes) ==
    [i \in 1..bytes[Len(PngSignature) + 1] |->
        Slice(bytes, Len(PngSignature) + 1 + 4 * (i - 1), 4)]

(***************************************************************************)
(* C1: both triangles of the emitted mesh are wound counter-clockwise as   *)
(* seen from +Y: for each triangle (a, b, c) the cross product             *)
(* (Vb - Va) x (Vc - Va) has a strictly positive Y component, agreeing     *)
(* with the stored normal (0, 1, 0), for every positive side length.       *)
(***************************************************************************)
C1_WindingCounterClockwiseFromAbove ==
    indices # <<>> =>
        \A k \in 1..TriangleCount(indices) :
            LET t == Triangle(indices, k)
            IN  CrossY(At(vertices, t[1]), At(vertices, t[2]),
                       At(vertices, t[3])) > 0

(***************************************************************************)
(* C2: the four UVs are the four distinct corners of [0,T] x [0,T], u      *)
(* depends only on x and v only on z, and walking the vertices in index    *)
(* order turns in the same rotational sense on the image (UV origin        *)
(* top-left) as on the plane seen from +Y, i.e. the texture is not         *)
(* mirrored.                                                               *)
(***************************************************************************)
C2_UvCornersUnmirrored ==
    uvs # <<>> =>
        /\ Len(uvs) = 4
        /\ Range(uvs) =
               { <<u, v>> : u \in {0, ToFixed(tileCount)},
                            v \in {0, ToFixed(tileCount)} }
        /\ \A i, j \in 1..Len(uvs) :
               /\ vertices[i][1] = vertices[j][1] => uvs[i][1] = uvs[j][1]
               /\ vertices[i][3] = vertices[j][3] => uvs[i][2] = uvs[j][2]
        /\ Sign(Shoelace([i \in 1..Len(uvs) |-> OnImage(uvs[i])], 1))
             = Sign(Shoelace([i \in 1..Len(vertices) |->
                                  SeenFromAbove(vertices[i])], 1))

(***************************************************************************)
(* C3: when TEXTURE_PATH names no regular file, the run fails with the     *)
(* FileNotFoundError of ensure_paths before any work: create_ground_glb is *)
(* never entered, no directory is created and the output path is left as   *)
(* it was.                                                                 *)
(***************************************************************************)
C3_MissingTextureFailsBeforeWork ==
    (textureFile.kind \in {"absent", "directory"} /\ pc # "ensure_paths") =>
        /\ exc = "FileNotFoundError"
        /\ pc \in {"except", "exit"}
        /\ Range(steps) \subseteq {"is_file", "except"}
        /\ parentDirs = initialDirs
        /\ outputFile = initialOutput
        /\ vertices = <<>> /\ gltf = <<>>
        /\ stdout = <<>>
        /\ pc = "exit" => exit = "raised" /\ uncaught = "FileNotFoundError"

C3_Witness ==
    /\ textureFile.kind = "absent"
    /\ initialDirs < ParentDepth
    /\ pc = "exit"
    /\ uncaught = "FileNotFoundError"

(***************************************************************************)
(* C4: a finished run has printed exactly one message.  The success        *)
(* message is printed iff ensure_paths and create_ground_glb both returned *)
(* without raising, and only once the output file is saved; if a step      *)
(* raised, the failure message went to the error stream, the success       *)
(* message was not printed, and that same exception left the entry point.  *)
(***************************************************************************)
C4_ExactlyOneMessage ==
    /\ pc # "exit" => stdout = <<>> /\ stderr = <<>> /\ exit = "running"
    /\ pc = "exit" =>
        /\ Len(stdout) + Len(stderr) = 1
        /\ stdout = <<SuccessMessage>> <=> exc = ""
        /\ exc = "" =>
            /\ exit = "returned"
            /\ uncaught = ""
            /\ Prefix(steps, Len(steps) - 1) = Prefix(FullRun, 8)
        /\ exc # "" =>
            /\ stderr = <<FailureMessage(exc)>>
            /\ exit = "raised"
            /\ uncaught = exc
    /\ stdout # <<>> =>
        /\ outputFile = GlbFile(gltf, binary_blob)
        /\ gltf # <<>>
        /\ steps[Len(steps) - 1] = "save"

C4_Witness ==
    /\ pc = "exit"
    /\ exc = "OSError"
    /\ outputFile = PartialOutput
    /\ stderr = <<FailureMessage("OSError")>>
    /\ uncaught = "OSError"

C6_LayoutRoundTrip ==
    outputFile.kind = "glb" =>
        LET doc == outputFile.doc[1]
            blob == outputFile.blob
            views == doc.bufferViews
            accs == doc.accessors
        IN  /\ Len(views) = 5
            /\ \A k \in 1..Len(views) :
                   /\ views[k].byteOffset = SumLengths(views, k - 1)
                   /\ views[k].byteLength > 0
            /\ SumLengths(views, Len(views)) = doc.buffers[1].byteLength
            /\ doc.buffers[1].byteLength = Len(blob)
            /\ << accs[1].count, accs[2].count, accs[3].count,
                  accs[4].count >> = <<4, 4, 4, 6>>
            /\ << accs[1].count, accs[2].count, accs[3].count,
                  accs[4].count >>
                 = << Len(vertices), Len(normals), Len(uvs), Len(indices) >>
            /\ \A a \in 1..Len(accs) :
                   accs[a].count * ComponentBytes(accs[a].componentType)
                       * ComponentCount(accs[a].type)
                     = At(views, accs[a].bufferView).byteLength
            /\ DecodeFloatArray(ViewBytes(blob, At(views, accs[1].bufferView)),
                                accs[1].count, 3) = vertices
            /\ DecodeFloatArray(ViewBytes(blob, At(views, accs[2].bufferView)),
                                accs[2].count, 3) = normals
            /\ DecodeFloatArray(ViewBytes(blob, At(views, accs[3].bufferView)),
                                accs[3].count, 2) = uvs
            /\ DecodeUint16Array(ViewBytes(blob, At(views, accs[4].bufferView)),
                                 accs[4].count) = indices
            /\ ViewBytes(blob, At(views, doc.images[1].bufferView))
                 = texture_bytes
            /\ PngPixels(ViewBytes(blob, At(views, doc.images[1].bufferView)))
                 = ConvertRGBA(textureFile)

C6_Witness ==
    /\ outputFile.kind = "glb"
    /\ planeSize = PLANE_SIZE_METERS
    /\ tileCount = TEXTURE_TILE_COUNT
    /\ textureFile.mode = "RGB"
    /\ Len(textureFile.pixels) = MaxPixels
    /\ Len(outputFile.blob) = 140 + Len(texture_bytes)

(***************************************************************************)
(* C7: for every side length S the four positions are exactly the four     *)
(* distinct points (+-S/2, 0, +-S/2): y is 0 throughout, each sign         *)
(* combination occurs once, the square is centred on the origin, and the   *)
(* POSITION accessor's min and max are (-S/2, 0, -S/2) and (S/2, 0, S/2).  *)
(***************************************************************************)
C7_SquareCorners ==
    /\ vertices # <<>> =>
        /\ Len(vertices) = 4
        /\ \A i \in 1..Len(vertices) : vertices[i][2] = 0
        /\ \A sx, sz \in {-1, 1} :
               Cardinality({ i \in 1..Len(vertices) :
                   /\ 2 * vertices[i][1] = sx * ToFixed(planeSize)
                   /\ 2 * vertices[i][3] = sz * ToFixed(planeSize) }) = 1
        /\ vertices[1][1] + vertices[2][1] + vertices[3][1]
               + vertices[4][1] = 0
        /\ vertices[1][3] + vertices[2][3] + vertices[3][3]
               + vertices[4][3] = 0
    /\ gltf # <<>> =>
        LET position == At(gltf[1].accessors,
                           gltf[1].meshes[1].primitives[1].attributes.POSITION)
        IN  /\ Len(position.min) = 3 /\ Len(position.max) = 3
            /\ \A j \in {1, 3} :
                   /\ 2 * position.min[j] = -ToFixed(planeSize)
                   /\ 2 * position.max[j] = ToFixed(planeSize)
            /\ position.min[2] = 0 /\ position.max[2] = 0

C7_Witness ==
    /\ gltf # <<>>
    /\ planeSize = PLANE_SIZE_METERS
    /\ vertices[3] = <<ToFixed(200), 0, ToFixed(200)>>
    /\ gltf[1].accessors[1].max = <<ToFixed(200), 0, ToFixed(200)>>

(***************************************************************************)
(* C8: vertex, normal and UV counts are equal; every normal is (0, 1, 0);  *)
(* the index count is a multiple of 3; every index is a valid vertex       *)
(* position; no triangle repeats an index; every vertex is referenced and  *)
(* the two triangles share exactly the diagonal edge.                      *)
(***************************************************************************)
C8_MeshInvariant ==
    indices # <<>> =>
        /\ Len(vertices) = Len(normals)
        /\ Len(normals) = Len(uvs)
        /\ \A i \in 1..Len(normals) : normals[i] = <<0, ToFixed(1), 0>>
        /\ Len(indices) % 3 = 0
        /\ \A i \in 1..Len(indices) : ValidIndex(indices[i], vertices)
        /\ \A k \in 1..TriangleCount(indices) :
               Cardinality(Range(Triangle(indices, k))) = 3
        /\ Range(indices) = 0..(Len(vertices) - 1)
        /\ TriangleCount(indices) = 2
        /\ LET shared == Range(Triangle(indices, 1))
                             \cap Range(Triangle(indices, 2))
           IN  /\ Cardinality(shared) = 2
               /\ \A a, b \in shared :
                      a # b =>
                          /\ At(vertices, a)[1] # At(vertices, b)[1]
                          /\ At(vertices, a)[3] # At(vertices, b)[3]

C8_Witness ==
    /\ pc = "load_texture"
    /\ indices = <<0, 1, 2, 0, 2, 3>>
    /\ Len(vertices) = 4
    /\ planeSize = MaxSide

(***************************************************************************)
(* C9: every index-valued reference of the document names an existing      *)
(* element.  The default scene is a valid scene with the single root node  *)
(* 0; node 0 references mesh 0; the primitive's POSITION, NORMAL,          *)
(* TEXCOORD_0 and indices name four distinct accessors of type VEC3, VEC3, *)
(* VEC2, SCALAR and its material names the one material; the material's    *)
(* base-colour texture names the one texture, which names the one sampler  *)
(* and the one image; the image names the buffer view holding the image    *)
(* bytes; every accessor names a geometry buffer view, never the image's;  *)
(* every buffer view names buffer 0.                                       *)
(***************************************************************************)
C9_ReferentialIntegrity ==
    gltf # <<>> =>
        LET doc == gltf[1]
            prim == doc.meshes[1].primitives[1]
            refs == << prim.attributes.POSITION, prim.attributes.NORMAL,
                       prim.attributes.TEXCOORD_0, prim.indices >>
            tex == doc.materials[1].pbrMetallicRoughness.baseColorTexture
            imageView == doc.images[1].bufferView
        IN  /\ ValidIndex(doc.scene, doc.scenes)
            /\ At(doc.scenes, doc.scene).nodes = <<0>>
            /\ Len(doc.nodes) = 1
            /\ At(doc.nodes, 0).mesh = 0
            /\ Len(doc.meshes) = 1 /\ Len(doc.meshes[1].primitives) = 1
            /\ \A r \in 1..4 : ValidIndex(refs[r], doc.accessors)
            /\ Cardinality(Range(refs)) = 4
            /\ [r \in 1..4 |-> At(doc.accessors, refs[r]).type]
                 = <<"VEC3", "VEC3", "VEC2", "SCALAR">>
            /\ Len(doc.materials) = 1 /\ prim.material = 0
            /\ Len(doc.textures) = 1 /\ tex.index = 0
            /\ Len(doc.samplers) = 1 /\ At(doc.textures, tex.index).sampler = 0
            /\ Len(doc.images) = 1 /\ At(doc.textures, tex.index).source = 0
            /\ ValidIndex(imageView, doc.bufferViews)
            /\ ViewBytes(binary_blob, At(doc.bufferViews, imageView))
                 = texture_bytes
            /\ At(doc.bufferViews, imageView).target = <<>>
            /\ \A a \in 1..Len(doc.accessors) :
                   /\ ValidIndex(doc.accessors[a].bufferView, doc.bufferViews)
                   /\ doc.accessors[a].bufferView # imageView
                   /\ At(doc.bufferViews, doc.accessors[a].bufferView).target
                          # <<>>
            /\ Len(doc.buffers) = 1
            /\ \A v \in 1..Len(doc.bufferViews) :
                   doc.bufferViews[v].buffer = 0

C9_Witness ==
    /\ pc = "save"
    /\ gltf # <<>>
    /\ gltf[1].scene = 0
    /\ Len(gltf[1].accessors) = 4
    /\ Len(gltf[1].bufferViews) = 5

(***************************************************************************)
(* C10: the write of the output file is the last step of a run and happens *)
(* at most once, after the input check, the directory creation, the image  *)
(* decode and re-encode and the document construction have all succeeded.  *)
(* A run that aborts before the save leaves the output path as it was;     *)
(* after the first error no later step is attempted and nothing is         *)
(* retried; the only side effect such a run can leave is the created       *)
(* parent directory, and only when the input check passed.                 *)
(***************************************************************************)
C10_WriteLastAbortImmediately ==
    /\ \E k \in 0..Len(FullRun) :
           \/ steps = Prefix(FullRun, k)
           \/ steps = Prefix(FullRun, k) \o <<"except">>
    /\ exc # "" <=> pc = "except" \/ (pc = "exit" /\ "except" \in Range(steps))
    /\ Cardinality({ i \in 1..Len(steps) : steps[i] = "save" }) <= 1
    /\ "save" \in Range(steps) => Prefix(steps, 8) = Prefix(FullRun, 8)
    /\ outputFile # initialOutput => "save" \in Range(steps)
    /\ "save" \notin Range(steps) =>
        /\ outputFile = initialOutput
        /\ parentDirs # initialDirs =>
               /\ Prefix(steps, 2) = <<"is_file", "mkdir">>
               /\ is_file(textureFile)
               /\ parentDirs > initialDirs

C10_Witness ==
    /\ pc = "exit"
    /\ exc = "UnidentifiedImageError"
    /\ steps = <<"is_file", "mkdir", "geometry", "load_texture", "except">>
    /\ initialDirs < ParentDepth
    /\ parentDirs = ParentDepth
    /\ outputFile = initialOutput

=============================================================================
